---- MODULE Spec2Model ----
(***************************************************************************)
(* Model of app.py (Pro Quiz Portal): the question store, the 4-batch      *)
(* generation run and the quiz session with its grading.                   *)
(*                                                                         *)
(* Python strings are sequences of one-character strings, so that          *)
(* indexing, upper(), lower() and startswith() are computed.  An AI        *)
(* response text is a sequence of lexical tokens (brackets, braces,        *)
(* commas, colons, string and number literals, and prose words), on which  *)
(* text.find('['), text.rfind(']'), slicing and json.loads are computed.   *)
(***************************************************************************)
EXTENDS Integers, Sequences, FiniteSets, Bags, TLC

(***************************************************************************)
(* Python str                                                              *)
(***************************************************************************)
\* str.lower() on one character
LowerChar(c) ==
  CASE c = "A" -> "a" [] c = "B" -> "b" [] c = "Q" -> "q" [] c = "O" -> "o"
    [] c = "N" -> "n" [] c = "S" -> "s" [] c = "W" -> "w" [] c = "E" -> "e"
    [] c = "R" -> "r" [] c = "T" -> "t" [] c = "I" -> "i" [] c = "P" -> "p"
    [] c = "U" -> "u" [] OTHER -> c

\* str.upper() on one character
UpperChar(c) ==
  CASE c = "a" -> "A" [] c = "b" -> "B" [] c = "q" -> "Q" [] c = "o" -> "O"
    [] c = "n" -> "N" [] c = "s" -> "S" [] c = "w" -> "W" [] c = "e" -> "E"
    [] c = "r" -> "R" [] c = "t" -> "T" [] c = "i" -> "I" [] c = "p" -> "P"
    [] c = "u" -> "U" [] OTHER -> c

\* k.lower()
Lower(s) == [i \in 1..Len(s) |-> LowerChar(s[i])]

\* s[0].upper() if s else ""
FirstLetterUpper(s) == IF s # <<>> THEN <<UpperChar(s[1])>> ELSE <<>>

\* opt.startswith(prefix)
StartsWith(s, prefix) ==
  /\ Len(prefix) <= Len(s)
  /\ \A i \in 1..Len(prefix) : s[i] = prefix[i]

(***************************************************************************)
(* Python values produced by json.loads                                    *)
(***************************************************************************)
JStr(s) == [t |-> "str", v |-> s]
JNum(n) == [t |-> "num", v |-> n]
JArr(a) == [t |-> "arr", v |-> a]
\* a dict: its items in insertion order, <<key, value>>, keys distinct
JObj(items) == [t |-> "obj", v |-> items]

\* bool(value), as tested by "if questions:"
Truthy(val) == IF val.t = "num" THEN val.v # 0 ELSE Len(val.v) > 0

\* d[k] = v on a dict's items: replaces the value of an existing key, else appends
DictSet(items, k, v) ==
  IF \E i \in 1..Len(items) : items[i][1] = k
    THEN [i \in 1..Len(items) |-> IF items[i][1] = k THEN <<k, v>> ELSE items[i]]
    ELSE Append(items, <<k, v>>)

\* k in d
DictHas(items, k) == \E i \in 1..Len(items) : items[i][1] = k

\* d[k]
DictGet(items, k) == items[CHOOSE i \in 1..Len(items) : items[i][1] = k][2]

(***************************************************************************)
(* Response text as tokens                                                 *)
(***************************************************************************)
Punct(c) == [t |-> "p", v |-> c]
Word(w) == [t |-> "w", v |-> w]
StrTok(s) == [t |-> "s", v |-> s]
NumTok(n) == [t |-> "n", v |-> n]
IsPunct(tk, c) == tk.t = "p" /\ tk.v = c

\* text.find(c): the 0-based index of the first c, -1 when there is none
Find(text, c) ==
  IF \E i \in 1..Len(text) : IsPunct(text[i], c)
    THEN (CHOOSE i \in 1..Len(text) :
            /\ IsPunct(text[i], c)
            /\ \A j \in 1..(i-1) : ~IsPunct(text[j], c)) - 1
    ELSE -1

\* text.rfind(c): the 0-based index of the last c, -1 when there is none
RFind(text, c) ==
  IF \E i \in 1..Len(text) : IsPunct(text[i], c)
    THEN (CHOOSE i \in 1..Len(text) :
            /\ IsPunct(text[i], c)
            /\ \A j \in (i+1)..Len(text) : ~IsPunct(text[j], c)) - 1
    ELSE -1

\* text[start:end] for 0 <= start, 0 <= end
Slice(text, start, end) == SubSeq(text, start + 1, end)

clean_json_string(text) ==
  LET start == Find(text, "[")
      end == RFind(text, "]") + 1
  IN IF start # -1 /\ end # -1 THEN Slice(text, start, end) ELSE text

ParseFail == [ok |-> FALSE, val |-> JNum(0), next |-> 0]

RECURSIVE ParseValue(_, _)
RECURSIVE ParseElems(_, _, _)
RECURSIVE ParseMembers(_, _, _)

\* one JSON value starting at token i: [ok, val, next]
ParseValue(toks, i) ==
  IF i > Len(toks) THEN ParseFail
  ELSE LET tk == toks[i] IN
    CASE tk.t = "s" -> [ok |-> TRUE, val |-> JStr(tk.v), next |-> i + 1]
      [] tk.t = "n" -> [ok |-> TRUE, val |-> JNum(tk.v), next |-> i + 1]
      [] IsPunct(tk, "[") ->
           IF i + 1 <= Len(toks) /\ IsPunct(toks[i + 1], "]")
             THEN [ok |-> TRUE, val |-> JArr(<<>>), next |-> i + 2]
             ELSE ParseElems(toks, i + 1, <<>>)
      [] IsPunct(tk, "{") ->
           IF i + 1 <= Len(toks) /\ IsPunct(toks[i + 1], "}")
             THEN [ok |-> TRUE, val |-> JObj(<<>>), next |-> i + 2]
             ELSE ParseMembers(toks, i + 1, <<>>)
      [] OTHER -> ParseFail

\* the elements of an array from token i on, up to its closing bracket
ParseElems(toks, i, acc) ==
  LET r == ParseValue(toks, i) IN
  IF ~r.ok \/ r.next > Len(toks) THEN ParseFail
  ELSE IF IsPunct(toks[r.next], ",")
    THEN ParseElems(toks, r.next + 1, Append(acc, r.val))
  ELSE IF IsPunct(toks[r.next], "]")
    THEN [ok |-> TRUE, val |-> JArr(Append(acc, r.val)), next |-> r.next + 1]
  ELSE ParseFail

\* the members of an object from token i on, up to its closing brace
ParseMembers(toks, i, acc) ==
  IF i + 1 > Len(toks) \/ toks[i].t # "s" \/ ~IsPunct(toks[i + 1], ":")
    THEN ParseFail
  ELSE LET r == ParseValue(toks, i + 2) IN
    IF ~r.ok \/ r.next > Len(toks) THEN ParseFail
    ELSE IF IsPunct(toks[r.next], ",")
      THEN ParseMembers(toks, r.next + 1, DictSet(acc, toks[i].v, r.val))
    ELSE IF IsPunct(toks[r.next], "}")
      THEN [ok |-> TRUE, val |-> JObj(DictSet(acc, toks[i].v, r.val)),
            next |-> r.next + 1]
    ELSE ParseFail

\* json.loads(text): [ok, val]; ok = FALSE is JSONDecodeError
JsonLoads(toks) ==
  LET r == ParseValue(toks, 1) IN
  IF r.ok /\ r.next = Len(toks) + 1
    THEN [ok |-> TRUE, val |-> r.val]
    ELSE [ok |-> FALSE, val |-> JNum(0)]

RECURSIVE JsonDumps(_)
RECURSIVE DumpElems(_, _)
RECURSIVE DumpMembers(_, _)

\* json.dumps(value), as tokens
JsonDumps(val) ==
  CASE val.t = "str" -> <<StrTok(val.v)>>
    [] val.t = "num" -> <<NumTok(val.v)>>
    [] val.t = "arr" -> <<Punct("[")>> \o DumpElems(val.v, 1) \o <<Punct("]")>>
    [] val.t = "obj" -> <<Punct("{")>> \o DumpMembers(val.v, 1) \o <<Punct("}")>>

DumpElems(a, i) ==
  IF i > Len(a) THEN <<>>
  ELSE JsonDumps(a[i]) \o (IF i < Len(a) THEN <<Punct(",")>> ELSE <<>>)
         \o DumpElems(a, i + 1)

DumpMembers(items, i) ==
  IF i > Len(items) THEN <<>>
  ELSE <<StrTok(items[i][1]), Punct(":")>> \o JsonDumps(items[i][2])
         \o (IF i < Len(items) THEN <<Punct(",")>> ELSE <<>>)
         \o DumpMembers(items, i + 1)

(***************************************************************************)
(* Strings of the program and of the modelled inputs                       *)
(***************************************************************************)
\* the keys save_questions_to_db looks up (lines 53-60)
K_question == <<"q", "u", "e", "s", "t", "i", "o", "n">>
K_options == <<"o", "p", "t", "i", "o", "n", "s">>
K_answer == <<"a", "n", "s", "w", "e", "r">>
K_explanation == <<"e", "x", "p", "l", "a", "n", "a", "t", "i", "o", "n">>
\* q_lower.get('explanation', ...) default (line 55)
DefaultExplanation == <<"N", "o", " ", "e", "x", "p", "l", "a", "n", "a", "t", "i", "o", "n", " ", "p", "r", "o", "v", "i", "d", "e", "d", ".">>

\* the same keys as an AI may case them
K_Question == <<"Q", "u", "e", "s", "t", "i", "o", "n">>
K_OPTIONS == <<"O", "P", "T", "I", "O", "N", "S">>
K_Answer == <<"A", "n", "s", "w", "e", "r">>
K_note == <<"n", "o", "t", "e">>

QText1 == <<"q", "1">>
QText2 == <<"q", "2">>
QText3 == <<"q", "3">>
QText4 == <<"q", "4">>
Expl1 == <<"e", "1">>
OptA == <<"A", ".", " ", "x">>
OptB == <<"B", ".", " ", "y">>
Opt5 == <<"5">>
Opt50 == <<"5", "0">>
Opt6 == <<"6">>
LetterA == <<"A">>
LetterB == <<"B">>
LetterLowerA == <<"a">>

\* the subject selectbox (lines 222, 286); two of its four labels
Subjects == {"English", "Math"}
\* uploaded_file.name
FileName == "notes.pdf"

(***************************************************************************)
(* Raw objects an AI response may hold                                     *)
(***************************************************************************)
\* as the prompt asks: lettered options, the answer a bare capital letter
ItemLetter ==
  JObj(<< <<K_question, JStr(QText1)>>,
          <<K_options, JArr(<<JStr(OptA), JStr(OptB)>>)>>,
          <<K_answer, JStr(LetterB)>>,
          <<K_explanation, JStr(Expl1)>> >>)
\* keys in another case, the answer letter in lower case, no explanation
ItemCaps ==
  JObj(<< <<K_Question, JStr(QText2)>>,
          <<K_OPTIONS, JArr(<<JStr(OptA), JStr(OptB)>>)>>,
          <<K_Answer, JStr(LetterLowerA)>> >>)
\* the answer key is missing
ItemNoAnswer ==
  JObj(<< <<K_question, JStr(QText1)>>,
          <<K_options, JArr(<<JStr(OptA), JStr(OptB)>>)>> >>)
\* the keys are there, options and answer are empty
ItemEmpty ==
  JObj(<< <<K_question, JStr(QText3)>>,
          <<K_options, JArr(<<>>)>>,
          <<K_answer, JStr(<<>>)>> >>)
\* plain options, the answer one of them verbatim
ItemVerbatim ==
  JObj(<< <<K_question, JStr(QText4)>>,
          <<K_options, JArr(<<JStr(Opt50), JStr(Opt5), JStr(Opt6)>>)>>,
          <<K_answer, JStr(Opt5)>> >>)

\* response.text of model.generate_content (line 158-159), or its exception
Text(toks) == [raises |-> FALSE, text |-> toks]
Responses ==
  << \* the API call raises (quota, network)
     [raises |-> TRUE, text |-> <<>>],
     \* prose, no JSON
     Text(<<Word("Sorry"), Word("no"), Word("questions")>>),
     \* a closing bracket before the only opening one
     Text(<<Punct("]"), Word("see"), Punct("[")>>),
     \* a markdown-fenced array: one valid object, one without an answer
     Text(<<Word("~~~json")>> \o JsonDumps(JArr(<<ItemLetter, ItemNoAnswer>>))
            \o <<Word("~~~")>>),
     \* an array of two objects holding the keys, one with empty options and answer
     Text(JsonDumps(JArr(<<ItemCaps, ItemEmpty>>))),
     \* an array holding a valid object and a number
     Text(JsonDumps(JArr(<<ItemLetter, JNum(7)>>))),
     \* one object, not wrapped in an array
     Text(JsonDumps(ItemLetter)),
     \* an object holding no bracket at all
     Text(JsonDumps(JObj(<< <<K_note, JStr(QText1)>> >>))),
     \* a number
     Text(<<NumTok(7)>>),
     \* the empty array
     Text(<<Punct("["), Punct("]")>>) >>

(***************************************************************************)
(* The question store                                                      *)
(***************************************************************************)
RECURSIVE LowerKeysFrom(_, _, _)
LowerKeysFrom(items, i, acc) ==
  IF i > Len(items) THEN acc
  ELSE LowerKeysFrom(items, i + 1, DictSet(acc, Lower(items[i][1]), items[i][2]))

\* a bug: the keys are looked up as the AI cased them
LowerKeysAsGiven(items) == items

\* {k.lower(): v for k, v in q.items()}
LowerKeys(items) == LowerKeysFrom(items, 1, <<>>)

\* 'question' in q_lower and 'options' in q_lower and 'answer' in q_lower
HasEssentialKeys(q_lower) ==
  DictHas(q_lower, K_question) /\ DictHas(q_lower, K_options)
    /\ DictHas(q_lower, K_answer)

\* the row of one INSERT (lines 54-60)
MakeRow(q_lower, subject, filename) ==
  [subject |-> subject,
   question |-> DictGet(q_lower, K_question).v,
   options |-> JsonDumps(DictGet(q_lower, K_options)),
   answer |-> DictGet(q_lower, K_answer).v,
   explanation |-> IF DictHas(q_lower, K_explanation)
                     THEN DictGet(q_lower, K_explanation).v
                     ELSE DefaultExplanation,
   source_file |-> filename]

SaveRaised == [raised |-> TRUE, count |-> 0, rows |-> <<>>]

\* what "for q in questions" iterates over
Iterate(questions) ==
  CASE questions.t = "arr" -> questions.v
    [] questions.t = "obj" ->
         [i \in 1..Len(questions.v) |-> JStr(questions.v[i][1])]
    [] questions.t = "str" ->
         [i \in 1..Len(questions.v) |-> JStr(<<questions.v[i]>>)]

RECURSIVE SaveLoop(_, _, _, _, _, _)
\* the loop of lines 48-61; q.items() raises AttributeError unless q is a dict
SaveLoop(qs, i, subject, filename, rows, count) ==
  IF i > Len(qs) THEN [raised |-> FALSE, count |-> count, rows |-> rows]
  ELSE IF qs[i].t # "obj" THEN SaveRaised
  ELSE LET q_lower == LowerKeys(qs[i].v) IN
    IF HasEssentialKeys(q_lower)
      THEN SaveLoop(qs, i + 1, subject, filename,
                    Append(rows, MakeRow(q_lower, subject, filename)), count + 1)
      ELSE SaveLoop(qs, i + 1, subject, filename, rows, count)

\* save_questions_to_db: [raised, count, rows]; rows are committed (line 62)
\* only when the loop ends, so an exception leaves the table as it was
save_questions_to_db(questions, subject, filename, connOk) ==
  IF ~connOk THEN [raised |-> FALSE, count |-> 0, rows |-> <<>>]
  ELSE IF questions.t = "num" THEN SaveRaised
  ELSE SaveLoop(Iterate(questions), 1, subject, filename, <<>>, 0)

RECURSIVE SeqToBag(_, _)
SeqToBag(rows, i) ==
  IF i > Len(rows) THEN EmptyBag
  ELSE SetToBag({rows[i]}) (+) SeqToBag(rows, i + 1)

\* get_db_stats: SELECT subject, COUNT(*) ... GROUP BY subject, as a set of pairs
RECURSIVE CountRows(_, _)
CountRows(tbl, rs) ==
  IF rs = {} THEN 0
  ELSE LET r == CHOOSE x \in rs : TRUE IN tbl[r] + CountRows(tbl, rs \ {r})

SubjectCount(tbl, s) == CountRows(tbl, {r \in DOMAIN tbl : r.subject = s})

get_db_stats(tbl) ==
  {<<s, SubjectCount(tbl, s)>> : s \in {r.subject : r \in DOMAIN tbl}}

\* generate_batch_with_vision: [failed, questions]; failed is the except branch
generate_batch_with_vision(resp) ==
  IF resp.raises THEN [failed |-> TRUE, questions |-> JArr(<<>>)]
  ELSE LET p == JsonLoads(clean_json_string(resp.text)) IN
    IF p.ok THEN [failed |-> FALSE, questions |-> p.val]
    ELSE [failed |-> TRUE, questions |-> JArr(<<>>)]

(***************************************************************************)
(* get_random_quiz and the grading of the results view                     *)
(***************************************************************************)
\* the list of str that json.loads(row[1]) gives for a list of strings
PyStrList(val) == [i \in 1..Len(val.v) |-> val.v[i].v]

\* one dict of the list comprehension of lines 84-89
RowToQuestion(row) ==
  [question |-> row.question,
   options |-> PyStrList(JsonLoads(row.options).val),
   answer |-> row.answer,
   explanation |-> row.explanation]

RECURSIVE RandomOrders(_, _)
\* ORDER BY RANDOM() LIMIT k: every sequence of min(k, rows) distinct rows
RandomOrders(tbl, k) ==
  IF k = 0 \/ tbl = EmptyBag THEN {<<>>}
  ELSE UNION {{<<RowToQuestion(r)>> \o rest :
                 rest \in RandomOrders(tbl (-) SetToBag({r}), k - 1)} :
              r \in BagToSet(tbl)}

\* the rows WHERE subject = %s, as a bag
SubjectRows(tbl, subject) ==
  LET rs == {r \in DOMAIN tbl : r.subject = subject}
  IN [r \in rs |-> tbl[r]]

\* get_random_quiz: the lists it may return
get_random_quiz(tbl, subject, limit, connOk) ==
  IF ~connOk THEN {<<>>} ELSE RandomOrders(SubjectRows(tbl, subject), limit)

\* st.session_state.get(key): None, or the selected option; falsy when None or ""
UserFullStr(sel) == IF sel = <<>> THEN <<>> ELSE sel[1]

\* user_letter (line 338)
UserLetter(sel) == FirstLetterUpper(UserFullStr(sel))

\* correct_letter (line 339)
CorrectLetter(q) == FirstLetterUpper(q.answer)

\* a bug: the first letters are compared without upper()
IsCorrectNoUpper(q, sel) ==
  (IF UserFullStr(sel) # <<>> THEN <<UserFullStr(sel)[1]>> ELSE <<>>)
    = (IF q.answer # <<>> THEN <<q.answer[1]>> ELSE <<>>)

\* a bug: the whole strings are compared
IsCorrectFullText(q, sel) == UserFullStr(sel) = q.answer

\* user_letter == correct_letter (line 349)
IsCorrect(q, sel) == UserLetter(sel) = CorrectLetter(q)

\* correct_text_display (lines 342-346): the first option that starts with
\* correct_letter, else the stored answer
CorrectTextDisplay(q) ==
  IF \E i \in 1..Len(q.options) : StartsWith(q.options[i], CorrectLetter(q))
    THEN q.options[CHOOSE i \in 1..Len(q.options) :
           /\ StartsWith(q.options[i], CorrectLetter(q))
           /\ \A j \in 1..(i-1) : ~StartsWith(q.options[j], CorrectLetter(q))]
    ELSE q.answer

\* score (lines 327-350)
Score(quiz, sels) == Cardinality({i \in 1..Len(quiz) : IsCorrect(quiz[i], sels[i])})

(***************************************************************************)
(* What a claim counts in a batch                                          *)
(***************************************************************************)
SameIgnoringCase(a, b) ==
  /\ Len(a) = Len(b)
  /\ \A i \in 1..Len(a) : UpperChar(a[i]) = UpperChar(b[i])

\* the raw object holds the keys question, options and answer, in any case
SatisfiesKeyCheck(item) ==
  /\ item.t = "obj"
  /\ \A req \in {K_question, K_options, K_answer} :
       \E i \in 1..Len(item.v) : SameIgnoringCase(item.v[i][1], req)

\* K: how many of the raw objects satisfy the key check
ValidCount(items) ==
  Cardinality({i \in 1..Len(items) : SatisfiesKeyCheck(items[i])})

(***************************************************************************)
(* Bounds and program constants                                            *)
(***************************************************************************)
\* for i in range(4)
NumBatches == 4
\* get_random_quiz(quiz_subject, limit=20)
QuizLimit == 20
\* a generation run starts only while the table holds at most this many rows
MaxRowsBeforeRun == 0
\* the wall clock, in seconds, runs from 1 to MaxClock
MaxClock == 2

(***************************************************************************)
(* State                                                                   *)
(***************************************************************************)
VARIABLES
  table,            \* the questions table, a bag of rows (the id column left out)
  pc,               \* "idle", or "gen" while the generate handler runs its loop
  batch,            \* i of "for i in range(4)": iterations done
  total_added,      \* total_added of the generate handler
  gen_subject,      \* gen_subject of the run
  batchLog,         \* history: what each iteration of the run did
  runOutcome,       \* history: how the last run ended
  savedSum,         \* history: per subject, the counts saves returned since the last clear
  current_quiz,     \* st.session_state.current_quiz
  quiz_submitted,   \* st.session_state.quiz_submitted
  quiz_session_id,  \* st.session_state.quiz_session_id
  widgets,          \* st.session_state[f"q{idx}_{quiz_session_id}"], by idx + 1
  now,              \* int(time.time())
  replacedToken,    \* history: quiz_session_id before the last start that loaded a quiz
  lastOp            \* history: the last quiz-tab handler that ran

vars == <<table, pc, batch, total_added, gen_subject, batchLog, runOutcome,
          savedSum, current_quiz, quiz_submitted, quiz_session_id, widgets,
          now, replacedToken, lastOp>>

genVars == <<pc, batch, total_added, gen_subject, batchLog, runOutcome>>
quizVars == <<current_quiz, quiz_submitted, quiz_session_id, widgets,
              replacedToken, lastOp>>

\* a radio with no selection (index=None)
None == <<>>
Some(s) == <<s>>

\* lines 176-181, before any handler ran
SessionInit ==
  /\ current_quiz = <<>>
  /\ quiz_submitted = FALSE
  /\ quiz_session_id = 0
  /\ widgets = <<>>
  /\ replacedToken = 0
  /\ lastOp = "none"

GenInit ==
  /\ pc = "idle"
  /\ batch = 0
  /\ total_added = 0
  /\ gen_subject = "English"
  /\ batchLog = <<>>
  /\ runOutcome = "none"
  /\ savedSum = [s \in Subjects |-> 0]

\* a fresh table (init_db on an empty database) and a fresh session
Init ==
  /\ table = EmptyBag
  /\ now = 1
  /\ GenInit
  /\ SessionInit

(***************************************************************************)
(* Tab 1: the generate handler (lines 225-278)                             *)
(***************************************************************************)
\* the button is pressed: the guard of line 226, the upload and poll of 239-245
GenerateClick(subject, ready, fileState) ==
  /\ pc = "idle"
  /\ BagCardinality(table) <= MaxRowsBeforeRun
  /\ IF ~ready
       THEN UNCHANGED <<pc, batch, total_added, gen_subject, batchLog, runOutcome>>
       ELSE /\ batch' = 0
            /\ total_added' = 0
            /\ gen_subject' = subject
            /\ batchLog' = <<>>
            /\ IF fileState = "FAILED"
                 THEN pc' = "idle" /\ runOutcome' = "error"
                 ELSE pc' = "gen" /\ runOutcome' = "running"
  /\ UNCHANGED <<table, savedSum, now>>
  /\ UNCHANGED quizVars

\* one iteration of the loop (lines 251-264) on response resp; an exception of
\* save_questions_to_db leaves the loop for the handler of line 275
GenerateBatch(resp, connOk) ==
  /\ pc = "gen"
  /\ batch < NumBatches
  /\ LET g == generate_batch_with_vision(resp)
         called == Truthy(g.questions)
         s == IF called
                THEN save_questions_to_db(g.questions, gen_subject, FileName, connOk)
                ELSE [raised |-> FALSE, count |-> 0, rows |-> <<>>]
         isArray == ~g.failed /\ g.questions.t = "arr"
         newTable == IF s.raised THEN table ELSE table (+) SeqToBag(s.rows, 1)
         entry == [failed |-> g.failed,
                   isArray |-> isArray,
                   allObjects |-> isArray /\ \A i \in 1..Len(g.questions.v) :
                                                g.questions.v[i].t = "obj",
                   n |-> IF isArray THEN Len(g.questions.v) ELSE 0,
                   k |-> IF isArray THEN ValidCount(g.questions.v) ELSE 0,
                   called |-> called,
                   connFailed |-> called /\ ~connOk,
                   raised |-> s.raised,
                   saved |-> s.count,
                   inserted |-> SubjectCount(newTable, gen_subject)
                                  - SubjectCount(table, gen_subject)]
     IN /\ table' = newTable
        /\ batchLog' = Append(batchLog, entry)
        /\ IF s.raised
             THEN /\ pc' = "idle"
                  /\ runOutcome' = "error"
                  /\ UNCHANGED <<batch, total_added, savedSum>>
             ELSE /\ batch' = batch + 1
                  /\ total_added' = total_added + s.count
                  /\ savedSum' = IF called
                       THEN [savedSum EXCEPT ![gen_subject] = @ + s.count]
                       ELSE savedSum
                  /\ UNCHANGED <<pc, runOutcome>>
  /\ UNCHANGED <<gen_subject, now>>
  /\ UNCHANGED quizVars

\* after the loop (lines 266-273)
FinishRun ==
  /\ pc = "gen"
  /\ batch = NumBatches
  /\ pc' = "idle"
  /\ runOutcome' = IF total_added > 0 THEN "success" ELSE "failed"
  /\ UNCHANGED <<table, batch, total_added, gen_subject, batchLog, savedSum, now>>
  /\ UNCHANGED quizVars

\* the clear button (lines 208-212) and clear_db
ClearClick(connOk) ==
  /\ pc = "idle"
  /\ table' = IF connOk THEN EmptyBag ELSE table
  /\ savedSum' = IF connOk THEN [s \in Subjects |-> 0] ELSE savedSum
  /\ UNCHANGED <<now>>
  /\ UNCHANGED genVars
  /\ UNCHANGED quizVars

Generate == \E subject \in Subjects, ready \in BOOLEAN, fileState \in {"ACTIVE", "FAILED"} :
  GenerateClick(subject, ready, fileState)
Batch == \E r \in 1..Len(Responses), connOk \in BOOLEAN :
  GenerateBatch(Responses[r], connOk)
Clear == \E connOk \in BOOLEAN : ClearClick(connOk)

Next == Generate \/ Batch \/ FinishRun \/ Clear

Spec == Init /\ [][Next]_vars

(***************************************************************************)
(* Tab 2: the quiz session (lines 288-366)                                 *)
(***************************************************************************)
\* batches an earlier generation run may have saved
InitBatches ==
  << JArr(<<ItemLetter, ItemCaps>>),
     JArr(<<ItemVerbatim, ItemLetter>>),
     JArr(<<ItemEmpty>>) >>

\* the database as earlier use of the program left it: one saved batch
InitQuiz ==
  /\ \E b \in 1..Len(InitBatches), subject \in Subjects :
       table = SeqToBag(save_questions_to_db(InitBatches[b], subject, FileName, TRUE).rows, 1)
  /\ now = 1
  /\ pc = "idle"
  /\ batch = 0
  /\ total_added = 0
  /\ gen_subject = "English"
  /\ batchLog = <<>>
  /\ runOutcome = "none"
  /\ savedSum = [s \in Subjects |-> SubjectCount(table, s)]
  /\ SessionInit

\* the radio of question idx keeps its state over a start only when its key
\* (idx and session id) and its options are those of the radio it replaces
KeptSelection(questions, idx) ==
  IF /\ now = quiz_session_id
     /\ idx <= Len(current_quiz)
     /\ current_quiz[idx].options = questions[idx].options
    THEN widgets[idx]
    ELSE None

\* the start button (lines 288-299)
StartClick(subject, connOk, questions) ==
  /\ pc = "idle"
  /\ questions \in get_random_quiz(table, subject, QuizLimit, connOk)
  /\ IF questions = <<>>
       THEN /\ lastOp' = "start_empty"
            /\ UNCHANGED <<current_quiz, quiz_submitted, quiz_session_id, widgets,
                           replacedToken>>
       ELSE /\ current_quiz' = questions
            /\ quiz_submitted' = FALSE
            /\ quiz_session_id' = now
            /\ widgets' = [idx \in 1..Len(questions) |-> KeptSelection(questions, idx)]
            /\ replacedToken' = quiz_session_id
            /\ lastOp' = "start_ok"
  /\ UNCHANGED <<table, savedSum, now>>
  /\ UNCHANGED genVars

\* what the form can send for question idx: one of its options, or no
\* selection while none was made (a radio cannot be unselected)
Selectable(idx) ==
  {Some(current_quiz[idx].options[i]) : i \in 1..Len(current_quiz[idx].options)}
    \cup (IF widgets[idx] = None THEN {None} ELSE {})

\* the form's submit button (lines 305-323): the form is rendered whenever a
\* quiz is loaded, and its radios arrive with the submit
SubmitClick(sels) ==
  /\ pc = "idle"
  /\ current_quiz # <<>>
  /\ widgets' = sels
  /\ quiz_submitted' = TRUE
  /\ lastOp' = "submit"
  /\ UNCHANGED <<current_quiz, quiz_session_id, replacedToken>>
  /\ UNCHANGED <<table, savedSum, now>>
  /\ UNCHANGED genVars

\* a second of wall-clock time passes
Tick ==
  /\ now < MaxClock
  /\ now' = now + 1
  /\ UNCHANGED <<table, savedSum>>
  /\ UNCHANGED genVars
  /\ UNCHANGED quizVars

Start == \E subject \in Subjects, connOk \in BOOLEAN :
  \E questions \in get_random_quiz(table, subject, QuizLimit, connOk) :
    StartClick(subject, connOk, questions)
Submit == \E sels \in [1..Len(current_quiz) -> UNION {Selectable(i) : i \in 1..Len(current_quiz)}] :
  /\ \A i \in 1..Len(current_quiz) : sels[i] \in Selectable(i)
  /\ SubmitClick(sels)

NextQuiz == Start \/ Submit \/ Tick \/ Clear

SpecQuiz == InitQuiz /\ [][NextQuiz]_vars

RunEnded == pc = "idle" /\ runOutcome \in {"success", "failed", "error"}

RECURSIVE SumSaved(_, _)
SumSaved(log, i) == IF i > Len(log) THEN 0 ELSE log[i].saved + SumSaved(log, i + 1)

\* C5: in a run of 4 batches, a batch whose response cannot be extracted or
\* parsed as a JSON array contributes zero saved questions and is reported as
\* failed, every later batch is still generated and saved, and the run's total
\* is the sum of the saved counts of the other batches.
C5_UnparsableBatchIsSkipped ==
  (RunEnded /\ \E i \in 1..Len(batchLog) : batchLog[i].failed \/ ~batchLog[i].isArray) =>
    /\ \A i \in 1..Len(batchLog) :
         (batchLog[i].failed \/ ~batchLog[i].isArray) =>
           (batchLog[i].saved = 0 /\ batchLog[i].failed)
    /\ Len(batchLog) = NumBatches
    /\ \A i \in 1..Len(batchLog) : ~batchLog[i].raised
    /\ total_added = SumSaved(batchLog, 1)

\* C6: every row of the questions table has a non-empty sequence of options
\* and a non-empty answer.
C6_RowsHaveOptionsAndAnswer ==
  \A r \in DOMAIN table :
    /\ PyStrList(JsonLoads(r.options).val) # <<>>
    /\ r.answer # <<>>

\* the parsed value of a batch is malformed: not an array, or an array with an
\* element that is no object or that lacks a required key
Malformed(e) == ~e.failed /\ e.called /\ (~e.isArray \/ ~e.allObjects \/ e.k < e.n)

\* C10: a malformed item of a parsed batch is dropped at the record level:
\* save_questions_to_db does not raise because of it, the valid items of the
\* batch are inserted and committed, and the run goes on to the next batch.
C10_MalformedItemIsDropped ==
  \A i \in 1..Len(batchLog) :
    LET e == batchLog[i] IN
    (Malformed(e) /\ ~e.connFailed) =>
      /\ ~e.raised
      /\ e.saved = e.k
      /\ e.inserted = e.k
      /\ (i < Len(batchLog) \/ batch = i)

(***************************************************************************)
(* Claims about the quiz session and its grading, checked under SpecQuiz   *)
(***************************************************************************)
CapitalLetters == {"A", "B", "C", "D"}

\* an option of the form "<Letter>. text"
LetterPrefixed(opt) ==
  Len(opt) >= 3 /\ opt[1] \in CapitalLetters /\ opt[2] = "." /\ opt[3] = " "

\* the answer is a bare capital letter and every option is letter-prefixed
LetterMode(q) ==
  /\ Len(q.answer) = 1 /\ q.answer[1] \in CapitalLetters
  /\ q.options # <<>>
  /\ \A i \in 1..Len(q.options) : LetterPrefixed(q.options[i])

\* C2: for a question whose answer is a bare letter and whose options are all
\* prefixed "<Letter>. ", the results view marks the question correct if and
\* only if the selection is an option whose letter prefix is the stored answer;
\* any other selection, and no selection, is marked incorrect.
C2_LetterModeGrading ==
  quiz_submitted =>
    \A idx \in 1..Len(current_quiz) :
      LET q == current_quiz[idx]
          sel == widgets[idx]
      IN LetterMode(q) =>
           (IsCorrect(q, sel) <=> (sel # None /\ sel[1][1] = q.answer[1]))

\* C2 witness: a submitted letter-mode question answered with the option of
\* the stored letter
C2_Witness ==
  /\ quiz_submitted
  /\ \E idx \in 1..Len(current_quiz) :
       /\ LetterMode(current_quiz[idx])
       /\ widgets[idx] # None
       /\ widgets[idx][1][1] = current_quiz[idx].answer[1]

\* the answer is a single letter and some option starts with that letter
\* (in either case) followed by a dot
LetterMatched(q) ==
  /\ Len(q.answer) = 1
  /\ UpperChar(q.answer[1]) \in CapitalLetters
  /\ \E i \in 1..Len(q.options) :
       /\ Len(q.options[i]) >= 2
       /\ UpperChar(q.options[i][1]) = UpperChar(q.answer[1])
       /\ q.options[i][2] = "."

C4_DisplayIsTheAnswerOption ==
  quiz_submitted =>
    \A idx \in 1..Len(current_quiz) :
      LET q == current_quiz[idx] IN
      /\ LetterMode(q) =>
           \E i \in 1..Len(q.options) :
             q.options[i][1] = q.answer[1] /\ CorrectTextDisplay(q) = q.options[i]
      /\ (~LetterMode(q) /\ \E i \in 1..Len(q.options) : q.options[i] = q.answer) =>
           CorrectTextDisplay(q) = q.answer

NoSelections == \A idx \in 1..Len(widgets) : widgets[idx] = None

\* C7: a start that loads a quiz gives the session a token different from the
\* token of the session it replaces, so that no selection of the previous
\* session is visible to the new session.
C7_StartGivesFreshToken ==
  lastOp = "start_ok" => (quiz_session_id # replacedToken /\ NoSelections)

\* C8: once the session is submitted, no step other than a start that loads a
\* new quiz changes the submitted flag, the selections grading reads or the
\* score.
C8_SubmittedIsTerminal ==
  [][(quiz_submitted /\ lastOp' # "start_ok") =>
       /\ quiz_submitted'
       /\ widgets' = widgets
       /\ Score(current_quiz', widgets') = Score(current_quiz, widgets)]_vars

\* C9: pressing start discards the session whatever the store returns: after
\* it the previous session's questions, selections and submitted flag are no
\* longer shown or graded.
C9_StartDiscardsSession ==
  /\ lastOp = "start_empty" => current_quiz = <<>>
  /\ lastOp = "start_ok" => (~quiz_submitted /\ NoSelections)

====
